---- MODULE Spec2Model ----
(***************************************************************************)
(* Model of ApiNetwork (src/src/index.ts, lines 290-520): the admission    *)
(* controller of fetch (rate pool, active cap, bounded wait queue on an    *)
(* EventEmitter), the lifecycle of one fetch call and disposal.            *)
(*                                                                         *)
(* Scheduling.  JavaScript is run-to-completion.  A caller resumed by      *)
(* emit("update") continues two promise jobs later, so the callers woken   *)
(* by one emit re-check back to back, in listener order, and nothing runs  *)
(* between them (draining).  Between the emit and the first re-check other *)
(* promise jobs can run: the continuation of the caller whose fetch just   *)
(* settled (it may call fetch or dispose), completions of the injected     *)
(* resolver and transport.  A timer callback starts on an empty job        *)
(* queue, so the batch it wakes re-checks before anything else happens.    *)
(***************************************************************************)
EXTENDS Integers, Sequences, FiniteSets, TLC

\* Bounds of the model.
MaxCalls == 3
MaxActiveCfg == 2
MaxAwaitingCfg == 2
MaxPoolCfg == 2
MaxTimeoutCalls == 1
IpBits == 2
MaxMasks == 1
MaxAddresses == 2
MaxTypeTokens == 4
MaxHeaderLen == 3
MaxEntries == 3
MaxHeaders == 2

\* The tests "awaiting fetch max active" and "awaiting fetch pool": seven calls at once,
\* fetchMaxActiveCount 3, fetchPoolCount 3, fetchMaxAwaitingProcesses 100.
TestCalls == 7
TestMaxActiveCount == 3
TestPoolCount == 3
TestMaxAwaitingProcesses == 100

\* config.fetchMaxActiveCount when the option is not given (typeof !== "number").
Undefined == 0 - 1

VARIABLES
    config,              \* NetworkConfig: the options the admission controller reads
    disposed,            \* #disposed
    abortControllers,    \* #abortControllers: the calls whose AbortController is in the set
    listeners,           \* #events: the "update" listeners, in registration order
    maxListeners,        \* #events.getMaxListeners()
    fetchPoolTimeoutId,  \* #fetchPoolTimeoutId: TRUE when the window timer is armed
    fetchPoolCounter,    \* #fetchPoolCounter
    wakeQueue,           \* promise jobs of woken callers: a sequence of batches, one per emit
    draining,            \* TRUE while the head batch is re-checking (nothing interleaves)
    pc,                  \* where each call is
    outcome,             \* how each call's promise settled
    aborted,             \* abortCtrl.signal.reason of each call's AbortController
    abortTimeout,        \* the calls whose per-call timeout (abortTimeout) is armed
    mock,                \* the injected collaborators: "any", or "test" (the tests' mocks)
    callsAtDispose,      \* history: how many calls had been made when dispose was first invoked
    resetWake,           \* history: size of the batch the window timer woke, while it re-checks
    request,             \* each call's arguments: url.hostname and param.type
    resolved,            \* what resolveFn answers for each call's hostname
    response,            \* the headers of the response fetchFn delivers to each call
    resultData,          \* the body reader used for the result each call returned
    headers,             \* each call's Headers: those handed to fetchFn, those of its result
    formData,            \* the shaping of each call's form data: entries, resultData, reads
    poolTimers           \* the number of window timers set and neither fired nor cleared

vars == <<config, disposed, abortControllers, listeners, maxListeners, fetchPoolTimeoutId,
          fetchPoolCounter, wakeQueue, draining, pc, outcome, aborted, abortTimeout,
          mock, callsAtDispose, resetWake, request, resolved, response, resultData,
          headers, formData, poolTimers>>

\* The fetch calls of the run, numbered in the order they are made.
Calls == DOMAIN pc

Range(s) == {s[i] : i \in 1..Len(s)}

Min(a, b) == IF a <= b THEN a ELSE b

\* The configurations.  An option that is never read is left at its default:
\* fetchPoolCount is read only when fetchPoolTimeout is set, fetchMaxAwaitingProcesses
\* only when some limit can block.
Configs ==
    {[fetchMaxActiveCount |-> n, fetchMaxAwaitingProcesses |-> m,
      fetchPoolTimeout |-> w, fetchPoolCount |-> q] :
        n \in {Undefined} \cup (0..MaxActiveCfg), m \in 0..MaxAwaitingCfg,
        w \in {0, 1}, q \in 0..MaxPoolCfg}

TypeOK ==
    /\ config.fetchMaxActiveCount \in Nat \cup {Undefined}
    /\ config.fetchMaxAwaitingProcesses \in Nat
    /\ config.fetchPoolCount \in Nat
    /\ config.fetchPoolTimeout \in Nat
    /\ disposed \in BOOLEAN
    /\ abortControllers \subseteq Calls
    /\ listeners \in Seq(Calls)
    /\ maxListeners \in Nat
    /\ fetchPoolTimeoutId \in BOOLEAN
    /\ poolTimers \in Nat
    /\ fetchPoolCounter \in Nat
    /\ draining \in BOOLEAN
    /\ abortTimeout \subseteq Calls

-----------------------------------------------------------------------------
\* The address policy (lines 448-492).

\* An optional list of the configuration: not given, or an array.
NoList == [given |-> FALSE, items |-> <<>>]
List(items) == [given |-> TRUE, items |-> items]

\* IPv4 addresses, IpBits wide.
Ips == 0..(2^IpBits - 1)

\* new Netmask(mask): the network address and the length of the prefix.
Netmasks ==
    {m \in [base : Ips, bitmask : 1..IpBits] : m.base % (2^(IpBits - m.bitmask)) = 0}

\* Netmask.contains(ip): ip lies in the block of the mask.
Contains(mask, ip) ==
    ip \div (2^(IpBits - mask.bitmask)) = mask.base \div (2^(IpBits - mask.bitmask))

\* for (let mask of masks) if (mask.contains(ip)) return ...
RECURSIVE SomeMaskContains(_, _)
SomeMaskContains(masks, ip) ==
    IF masks = <<>> THEN FALSE
    ELSE IF Contains(Head(masks), ip) THEN TRUE
    ELSE SomeMaskContains(Tail(masks), ip)

\* Mutant of IsIpAllowed: the whitelist is consulted before the blacklist.
IsIpAllowedWhitelistFirst(ip) ==
    IF config.ipWhitelist.given /\ SomeMaskContains(config.ipWhitelist.items, ip) THEN TRUE
    ELSE IF config.ipBlacklist.given /\ SomeMaskContains(config.ipBlacklist.items, ip)
         THEN FALSE
    ELSE ~config.ipWhitelist.given

\* #isIpAllowed (lines 481-492).
IsIpAllowed(ip) ==
    IF config.ipBlacklist.given /\ SomeMaskContains(config.ipBlacklist.items, ip) THEN FALSE
    ELSE IF ~config.ipWhitelist.given THEN TRUE
    ELSE SomeMaskContains(config.ipWhitelist.items, ip)

\* A hostname: a literal IP address (isIP(hostname) is not 0) or a domain name, a string
\* of characters.
IpHost(ip) == [isIP |-> TRUE, ip |-> ip, name |-> <<>>]
DomainHost(name) == [isIP |-> FALSE, ip |-> 0, name |-> name]

\* s.includes(p), s.startsWith(p) on strings given as sequences.
Includes(s, p) == \E i \in 0..(Len(s) - Len(p)) : SubSeq(s, i + 1, i + Len(p)) = p
StartsWith(s, p) == Len(s) >= Len(p) /\ SubSeq(s, 1, Len(p)) = p

\* An entry of a domain list: a string, or a RegExp given by a literal source (/_2/),
\* which matches every name that contains the source.
StringPattern(name) == [regexp |-> FALSE, source |-> name]
RegExpPattern(source) == [regexp |-> TRUE, source |-> source]

\* Mutant of PatternMatches: a RegExp entry is compared like a string.
PatternMatchesExactOnly(domainPattern, domain) ==
    ~domainPattern.regexp /\ domainPattern.source = domain

\* domainPattern === domain, or domainPattern instanceof RegExp && domain.match(...).
PatternMatches(domainPattern, domain) ==
    IF domainPattern.regexp
    THEN Includes(domain, domainPattern.source)
    ELSE domainPattern.source = domain

RECURSIVE SomePatternMatches(_, _)
SomePatternMatches(patterns, domain) ==
    IF patterns = <<>> THEN FALSE
    ELSE IF PatternMatches(Head(patterns), domain) THEN TRUE
    ELSE SomePatternMatches(Tail(patterns), domain)

\* #isDomainAllowed (lines 466-479).
IsDomainAllowed(domain) ==
    IF config.domainBlacklist.given /\ SomePatternMatches(config.domainBlacklist.items, domain)
    THEN FALSE
    ELSE IF ~config.domainWhitelist.given THEN TRUE
    ELSE SomePatternMatches(config.domainWhitelist.items, domain)

\* addresses.every(ip => this.#isIpAllowed(ip))
RECURSIVE EveryIpAllowed(_)
EveryIpAllowed(addresses) ==
    IF addresses = <<>> THEN TRUE
    ELSE IF ~IsIpAllowed(Head(addresses)) THEN FALSE
    ELSE EveryIpAllowed(Tail(addresses))

\* What resolveFn passes to its callback: an error, or the addresses.
ResolveError == [error |-> TRUE, addresses |-> <<>>]
ResolveOk(addresses) == [error |-> FALSE, addresses |-> addresses]

\* Mutant of IsFetchHostnameAllowed: a literal IP goes to the IP lists without a look
\* at fetchAllowIp.
IsFetchHostnameAllowedIpUnguarded(hostname, answer) ==
    IF hostname.isIP
    THEN IF IsIpAllowed(hostname.ip) THEN "allowed" ELSE "blocked"
    ELSE IF ~IsDomainAllowed(hostname.name) THEN "blocked"
    ELSE IF answer.error THEN "error"
    ELSE IF EveryIpAllowed(answer.addresses) THEN "allowed" ELSE "blocked"

\* Mutant of IsFetchHostnameAllowed: only the first resolved address is examined.
IsFetchHostnameAllowedFirstOnly(hostname, answer) ==
    IF hostname.isIP
    THEN IF ~config.fetchAllowIp THEN "blocked"
         ELSE IF IsIpAllowed(hostname.ip) THEN "allowed" ELSE "blocked"
    ELSE IF ~IsDomainAllowed(hostname.name) THEN "blocked"
    ELSE IF answer.error THEN "error"
    ELSE IF answer.addresses = <<>> \/ IsIpAllowed(Head(answer.addresses))
         THEN "allowed" ELSE "blocked"

\* #isFetchHostnameAllowed (lines 448-464): true ("allowed"), false ("blocked"), or the
\* promise rejects with the resolver's error ("error").
IsFetchHostnameAllowed(hostname, answer) ==
    IF hostname.isIP
    THEN IF ~config.fetchAllowIp THEN "blocked"
         ELSE IF IsIpAllowed(hostname.ip) THEN "allowed" ELSE "blocked"
    ELSE IF ~IsDomainAllowed(hostname.name) THEN "blocked"
    ELSE IF answer.error THEN "error"
    ELSE IF EveryIpAllowed(answer.addresses) THEN "allowed" ELSE "blocked"

-----------------------------------------------------------------------------
\* The response (lines 385-411, 500-507).

\* response.headers.get(name): null, or the value, a string given as a sequence.
NoHeader == [present |-> FALSE, text |-> <<>>]
Header(text) == [present |-> TRUE, text |-> text]

\* Number(string) of a string of characters: the decimal value, 0 for the empty string,
\* NaN when a character is not a digit.
NaN == 0 - 2
DigitChars == <<"0", "1", "2", "3", "4", "5", "6", "7", "8", "9">>
IsDigit(ch) == \E i \in 1..Len(DigitChars) : DigitChars[i] = ch
DigitValue(ch) == (CHOOSE i \in 1..Len(DigitChars) : DigitChars[i] = ch) - 1

RECURSIVE Number(_)
Number(text) ==
    IF text = <<>> THEN 0
    ELSE LET front == Number(SubSeq(text, 1, Len(text) - 1))
             last == text[Len(text)]
         IN IF front = NaN \/ ~IsDigit(last) THEN NaN
            ELSE front * 10 + DigitValue(last)

\* Mutant of CheckFetchContentLength: a length equal to the cap is refused.
CheckFetchContentLengthStrict(r) ==
    IF config.fetchMaxContentLength = Undefined THEN TRUE
    ELSE IF ~r.contentLength.present \/ r.contentLength.text = <<>> THEN FALSE
    ELSE LET len == Number(r.contentLength.text)
         IN IF len = NaN THEN FALSE
            ELSE ~(len >= config.fetchMaxContentLength)

\* #checkFetchContentLength (lines 500-507): TRUE when it returns, FALSE when it throws.
CheckFetchContentLength(r) ==
    IF config.fetchMaxContentLength = Undefined THEN TRUE
    ELSE IF ~r.contentLength.present \/ r.contentLength.text = <<>> THEN FALSE
    ELSE LET len == Number(r.contentLength.text)
         IN IF len = NaN THEN FALSE
            ELSE ~(len > config.fetchMaxContentLength)

\* param.type when the caller gives none.
NoType == "undefined"
BodyTypes == {"text", "json", "arrayBuffer", "formData"}

\* Content types are strings of these pieces; "x" is any other piece.
ApplicationJson == <<"application", "/", "json">>
MultipartFormData == <<"multipart", "/", "form-data">>
Text == <<"text">>
TextSlash == <<"text", "/">>
PlusXml == <<"+xml">>
TypePieces == {"application", "/", "json", "multipart", "form-data", "text", "+xml", "x"}

\* Lines 390-395: the type inferred from the content-type header.
InferType(contentType) ==
    IF ~contentType.present THEN "arrayBuffer"
    ELSE IF StartsWith(contentType.text, ApplicationJson) THEN "json"
    ELSE IF StartsWith(contentType.text, MultipartFormData) THEN "formData"
    ELSE IF contentType.text = Text \/ StartsWith(contentType.text, TextSlash) THEN "text"
    ELSE IF Includes(contentType.text, PlusXml) THEN "text"
    ELSE "arrayBuffer"

\* Mutant of NegotiatedType: the content type is inferred even when a type is given.
NegotiatedTypeInferred(type, contentType) == InferType(contentType)

\* Lines 388-396: param.type, or the inferred type.
NegotiatedType(type, contentType) ==
    IF type # NoType THEN type ELSE InferType(contentType)

\* The Headers handed to fetchFn (lines 357-365; with fetchHeaders as a function,
\* part_003 lines 73-90) and those of the result (line 421).  A Headers object is a
\* map from lower-case names to values; an object of headers is the sequence of its
\* [name, value] entries in insertion order.
EmptyHeaders == [n \in {} |-> ""]
NoHeaders == [request |-> EmptyHeaders, result |-> EmptyHeaders]

\* Headers lower-cases the names it is given.
Lower(name) == IF name = "A" THEN "a" ELSE IF name = "B" THEN "b" ELSE name

\* Mutant of HeadersSet: an entry already present is kept.
HeadersSetIfAbsent(h, name, value) ==
    [n \in DOMAIN h \cup {Lower(name)} |-> IF n \in DOMAIN h THEN h[n] ELSE value]

\* headers.set(name, String(value))
HeadersSet(h, name, value) ==
    [n \in DOMAIN h \cup {Lower(name)} |-> IF n = Lower(name) THEN value ELSE h[n]]

\* for (let headerName in obj) headers.set(headerName, String(obj[headerName]))
RECURSIVE SetAll(_, _)
SetAll(h, entries) ==
    IF entries = <<>> THEN h
    ELSE SetAll(HeadersSet(h, Head(entries)[1], Head(entries)[2]), Tail(entries))

\* param.headers and config.fetchHeaders; an option that is not given has no field.
\* config.fetchHeaders is an object, or a function: what it returns for this call,
\* or that it returns nothing.
ParamHeaders(c) == IF "headers" \in DOMAIN request[c] THEN request[c].headers ELSE <<>>
HeadersObject(entries) == [function |-> FALSE, returns |-> FALSE, entries |-> entries]
HeadersFunction(returns, entries) ==
    [function |-> TRUE, returns |-> returns, entries |-> entries]
FetchHeaders ==
    IF "fetchHeaders" \in DOMAIN config THEN config.fetchHeaders ELSE HeadersObject(<<>>)

\* The Headers built for the transport.
BuildHeaders(c) ==
    LET callerSet == SetAll(EmptyHeaders, ParamHeaders(c))
        headersObj == ParamHeaders(c)
        headersResult == IF FetchHeaders.returns THEN FetchHeaders.entries ELSE headersObj
    IN IF FetchHeaders.function
       THEN SetAll(callerSet, headersResult)
       ELSE SetAll(callerSet, FetchHeaders.entries)

\* Object.fromEntries(response.headers.entries()): the headers the response carries.
ResponseHeaderNames(r) ==
    {n \in {"content-length", "content-type"} :
        IF n = "content-length" THEN r.contentLength.present ELSE r.contentType.present}
ResultHeaders(r) ==
    [n \in ResponseHeaderNames(r) |->
        IF n = "content-length" THEN r.contentLength.text ELSE r.contentType.text]

\* The shaping of a form (lines 397-407): the entries of response.formData(), each a
\* string or a file; resultData as the indexes of the entries pushed so far; the files
\* whose mapFileToJson is pending.
NoFormData == [state |-> "none", entries |-> <<>>, pushed |-> <<>>, reading |-> {}]
UnreadForm(entries) ==
    [state |-> "unread", entries |-> entries, pushed |-> <<>>, reading |-> {}]

\* The arguments, the resolver's answer and the response when nothing is said of them.
DefaultRequest == [hostname |-> IpHost(1), type |-> NoType]
DefaultResponse == [contentLength |-> NoHeader, contentType |-> NoHeader]

Init ==
    /\ config \in {c \in Configs :
            /\ c.fetchPoolTimeout = 0 => c.fetchPoolCount = 0
            /\ (c.fetchPoolTimeout = 0 /\ c.fetchMaxActiveCount = Undefined)
                  => c.fetchMaxAwaitingProcesses = 0}
    /\ disposed = FALSE
    /\ abortControllers = {}
    /\ listeners = <<>>
    /\ maxListeners = config.fetchMaxAwaitingProcesses
    /\ fetchPoolTimeoutId = FALSE
    /\ poolTimers = 0
    /\ fetchPoolCounter = 0
    /\ wakeQueue = <<>>
    /\ draining = FALSE
    /\ pc = [c \in 1..MaxCalls |-> "idle"]
    /\ outcome = [c \in 1..MaxCalls |-> "pending"]
    /\ aborted = [c \in 1..MaxCalls |-> "none"]
    /\ abortTimeout = {}
    /\ mock = "any"
    /\ callsAtDispose = Undefined
    /\ resetWake = 0
    /\ request = [c \in 1..MaxCalls |-> DefaultRequest]
    /\ resolved = [c \in 1..MaxCalls |-> ResolveOk(<<>>)]
    /\ response = [c \in 1..MaxCalls |-> DefaultResponse]
    /\ resultData = [c \in 1..MaxCalls |-> "none"]
    /\ headers = [c \in 1..MaxCalls |-> NoHeaders]
    /\ formData = [c \in 1..MaxCalls |-> NoFormData]

\* What the injected functions and the callers can do.  With "any": a URL may fail to
\* parse, the hostname may be allowed, blocked or fail to resolve, the transport may
\* answer or fail, the content length may pass or not, the body may parse or not.
\* The mocks of the tests (literal IP hosts with fetchAllowIp, no error=true) always
\* succeed.
UrlInputs == IF mock = "any" THEN BOOLEAN ELSE {TRUE}
ValidationResults == IF mock = "any" THEN {"allowed", "blocked", "error"} ELSE {"allowed"}
TransportResults == IF mock = "any" THEN BOOLEAN ELSE {TRUE}
LengthResults == IF mock = "any" THEN BOOLEAN ELSE {TRUE}
BodyResults == IF mock = "any" THEN BOOLEAN ELSE {TRUE}

\* With "policy" the hostname, the resolver's answer and the response headers of each
\* call are given, and the code's own checks decide.
HostnameResults(c) ==
    IF mock = "policy"
    THEN {IsFetchHostnameAllowed(request[c].hostname, resolved[c])}
    ELSE ValidationResults

LengthChecks(c) ==
    IF mock = "policy" THEN {CheckFetchContentLength(response[c])} ELSE LengthResults

-----------------------------------------------------------------------------
\* The limiting conditions.

\* Mutant of HasTimeoutBlock: the quota compared with > instead of >=.
HasTimeoutBlockOffByOne ==
    IF config.fetchPoolTimeout = 0 THEN FALSE
    ELSE fetchPoolCounter > config.fetchPoolCount

HasTimeoutBlock ==
    IF config.fetchPoolTimeout = 0 THEN FALSE
    ELSE fetchPoolCounter >= config.fetchPoolCount

\* Mutant of HasMaxActiveBlock: the cap compared with > instead of >=.
HasMaxActiveBlockOffByOne ==
    IF config.fetchMaxActiveCount = Undefined THEN FALSE
    ELSE Cardinality(abortControllers) > config.fetchMaxActiveCount

HasMaxActiveBlock ==
    IF config.fetchMaxActiveCount = Undefined THEN FALSE
    ELSE Cardinality(abortControllers) >= config.fetchMaxActiveCount

\* #waitForUpdate's guard: the listener count has reached getMaxListeners().
\* Mutant of PoolOverflow: the listener count compared with > instead of >=.
PoolOverflowOffByOne == Len(listeners) > maxListeners

\* Mutant of PoolOverflow: the overflow check is made after a free slot is assumed.
PoolOverflowLate == Len(listeners) >= maxListeners + 1

PoolOverflow == Len(listeners) >= maxListeners

\* The "if (this.#disposed)" checks of fetch.
\* Mutant of DisposedAtEntry: fetch does not look at #disposed on entry.
DisposedAtEntrySkipped == FALSE

DisposedAtEntry == disposed
DisposedAfterWait == disposed
\* Mutant of DisposedAfterValidation: #disposed is not looked at after validation.
DisposedAfterValidationSkipped == FALSE

DisposedAfterValidation == disposed
DisposedAfterTransport == disposed
\* Mutant of DisposedAfterBody: the result is returned without the last look at #disposed.
DisposedAfterBodySkipped == FALSE

DisposedAfterBody == disposed

\* emit("update"): every once-listener is removed and its promise settled; the
\* continuations of the woken callers are queued behind the batches already queued.
\* Mutant of Emit: the listeners are removed but their promises are never settled.
EmitLost(wq) == wq

Emit(wq) == IF listeners = <<>> THEN wq ELSE Append(wq, listeners)

Woken(p, how) == [c \in Calls |-> IF c \in Range(listeners) THEN how ELSE p[c]]

\* Mutant of Reject: the rejection emits "update" as the finally block does.
RejectEmits(c, err, wq) ==
    /\ pc' = [Woken(pc, "woken") EXCEPT ![c] = "done"]
    /\ outcome' = [outcome EXCEPT ![c] = err]
    /\ wakeQueue' = Emit(wq)
    /\ listeners' = <<>>
    /\ UNCHANGED <<abortControllers, fetchPoolCounter, fetchPoolTimeoutId, poolTimers>>

\* A call's promise rejects outside the try block: nothing is released, nothing emitted.
Reject(c, err, wq) ==
    /\ pc' = [pc EXCEPT ![c] = "done"]
    /\ outcome' = [outcome EXCEPT ![c] = err]
    /\ wakeQueue' = wq
    /\ UNCHANGED <<listeners, abortControllers, fetchPoolCounter, fetchPoolTimeoutId,
                   poolTimers>>

\* #waitForUpdate: overflow, or register a once-listener and suspend.
WaitForUpdate(c, wq) ==
    IF PoolOverflow
    THEN Reject(c, "fetch pool overflow", wq)
    ELSE /\ listeners' = Append(listeners, c)
         /\ pc' = [pc EXCEPT ![c] = "waiting"]
         /\ wakeQueue' = wq
         /\ UNCHANGED <<outcome, abortControllers, fetchPoolCounter, fetchPoolTimeoutId,
                        poolTimers>>

\* Mutant of Admit: a window timer is set at every admission, whatever the handle.
AdmitRearm(c, wq) ==
    /\ IF config.fetchPoolTimeout # 0
       THEN /\ fetchPoolTimeoutId' = TRUE
            /\ poolTimers' = poolTimers + 1
            /\ fetchPoolCounter' = fetchPoolCounter + 1
       ELSE UNCHANGED <<fetchPoolTimeoutId, fetchPoolCounter, poolTimers>>
    /\ \E urlValid \in UrlInputs :
          IF urlValid
          THEN /\ abortControllers' = abortControllers \cup {c}
               /\ pc' = [pc EXCEPT ![c] = "validating"]
               /\ wakeQueue' = wq
               /\ UNCHANGED <<outcome, listeners>>
          ELSE /\ abortControllers' = abortControllers \ {c}
               /\ pc' = [Woken(pc, "woken") EXCEPT ![c] = "done"]
               /\ outcome' = [outcome EXCEPT ![c] = "error"]
               /\ wakeQueue' = Emit(wq)
               /\ listeners' = <<>>

\* Mutant of Admit: a call whose URL does not parse gives its admission back.
AdmitRefund(c, wq) ==
    \E urlValid \in UrlInputs :
       /\ IF config.fetchPoolTimeout # 0 /\ urlValid
          THEN /\ fetchPoolTimeoutId' = TRUE
               /\ poolTimers' = IF fetchPoolTimeoutId THEN poolTimers ELSE poolTimers + 1
               /\ fetchPoolCounter' = fetchPoolCounter + 1
          ELSE UNCHANGED <<fetchPoolTimeoutId, fetchPoolCounter, poolTimers>>
       /\ IF urlValid
          THEN /\ abortControllers' = abortControllers \cup {c}
               /\ pc' = [pc EXCEPT ![c] = "validating"]
               /\ wakeQueue' = wq
               /\ UNCHANGED <<outcome, listeners>>
          ELSE /\ abortControllers' = abortControllers \ {c}
               /\ pc' = [Woken(pc, "woken") EXCEPT ![c] = "done"]
               /\ outcome' = [outcome EXCEPT ![c] = "error"]
               /\ wakeQueue' = Emit(wq)
               /\ listeners' = <<>>

\* Lines 319-336 up to the first await: the controller joins the set, the rate pool is
\* charged and its timer armed when none is (lines 322-328); an unparsable URL throws
\* at once and runs finally.
Admit(c, wq) ==
    /\ IF config.fetchPoolTimeout # 0
       THEN /\ fetchPoolTimeoutId' = TRUE
            /\ poolTimers' = IF fetchPoolTimeoutId THEN poolTimers ELSE poolTimers + 1
            /\ fetchPoolCounter' = fetchPoolCounter + 1
       ELSE UNCHANGED <<fetchPoolTimeoutId, fetchPoolCounter, poolTimers>>
    /\ \E urlValid \in UrlInputs :
          IF urlValid
          THEN /\ abortControllers' = abortControllers \cup {c}
               /\ pc' = [pc EXCEPT ![c] = "validating"]
               /\ wakeQueue' = wq
               /\ UNCHANGED <<outcome, listeners>>
          ELSE /\ abortControllers' = abortControllers \ {c}
               /\ pc' = [Woken(pc, "woken") EXCEPT ![c] = "done"]
               /\ outcome' = [outcome EXCEPT ![c] = "error"]
               /\ wakeQueue' = Emit(wq)
               /\ listeners' = <<>>

\* The wait loop of fetch (lines 315-318) from its condition on.
TryAcquire(c, wq) ==
    IF HasTimeoutBlock \/ HasMaxActiveBlock
    THEN WaitForUpdate(c, wq)
    ELSE IF DisposedAfterWait
         THEN Reject(c, "api disposed", wq)
         ELSE Admit(c, wq)

\* Mutant of Finally: the controller is not deleted from the set.
FinallyLeak(c, result) ==
    /\ abortTimeout' = abortTimeout \ {c}
    /\ abortControllers' = abortControllers
    /\ wakeQueue' = Emit(wakeQueue)
    /\ listeners' = <<>>
    /\ aborted' = [aborted EXCEPT ![c] = "none"]
    /\ pc' = [Woken(pc, "woken") EXCEPT ![c] = "done"]
    /\ outcome' = [outcome EXCEPT ![c] = result]

\* Mutant of Finally: "update" is not emitted, the listeners stay registered.
FinallySilent(c, result) ==
    /\ abortTimeout' = abortTimeout \ {c}
    /\ abortControllers' = abortControllers \ {c}
    /\ wakeQueue' = wakeQueue
    /\ listeners' = listeners
    /\ aborted' = [aborted EXCEPT ![c] = "none"]
    /\ pc' = [pc EXCEPT ![c] = "done"]
    /\ outcome' = [outcome EXCEPT ![c] = result]

\* The finally block (lines 424-428) and the settling of the call.  The call's
\* AbortController leaves the program with its last reference.
Finally(c, result) ==
    /\ abortTimeout' = abortTimeout \ {c}
    /\ abortControllers' = abortControllers \ {c}
    /\ wakeQueue' = Emit(wakeQueue)
    /\ listeners' = <<>>
    /\ aborted' = [aborted EXCEPT ![c] = "none"]
    /\ pc' = [Woken(pc, "woken") EXCEPT ![c] = "done"]
    /\ outcome' = [outcome EXCEPT ![c] = result]

-----------------------------------------------------------------------------
\* The operations.

\* A caller invokes fetch: the synchronous part, up to the first await.  Calls are
\* numbered in the order they are made.
FetchCall(c) ==
    /\ ~draining
    /\ pc[c] = "idle"
    /\ \A d \in Calls : d < c => pc[d] # "idle"
    /\ IF DisposedAtEntry
       THEN Reject(c, "api disposed", wakeQueue)
       ELSE TryAcquire(c, wakeQueue)
    /\ UNCHANGED <<config, mock, headers, formData, request, resolved, response,
                   resultData, disposed,
                   maxListeners, draining, aborted, abortTimeout,
                   callsAtDispose, resetWake>>

\* The continuation of the oldest woken caller: await #waitForUpdate() returns or throws.
Resume ==
    /\ wakeQueue # <<>>
    /\ LET c == Head(Head(wakeQueue))
           rest == Tail(Head(wakeQueue))
           wq == IF rest = <<>> THEN Tail(wakeQueue) ELSE <<rest>> \o Tail(wakeQueue)
       IN /\ IF pc[c] = "wokenErr"
             THEN Reject(c, "api disposed", wq)
             ELSE TryAcquire(c, wq)
          /\ draining' = (rest # <<>>)
          /\ resetWake' = IF rest = <<>> THEN 0 ELSE resetWake
    /\ UNCHANGED <<config, mock, headers, formData, request, resolved, response,
                   resultData, disposed,
                   maxListeners, aborted, abortTimeout, callsAtDispose>>

\* params.timeout of call c: only the last MaxTimeoutCalls calls are given one.
TimeoutParams(c) ==
    IF mock = "any" /\ c > MaxCalls - MaxTimeoutCalls THEN {0, 1} ELSE {0}

\* Lines 338-382: the request is built, the per-call timeout armed, fetchFn invoked.
StartTransport(c) ==
    /\ \E timeout \in TimeoutParams(c) :
          abortTimeout' = IF timeout > 0 THEN abortTimeout \cup {c} ELSE abortTimeout
    /\ pc' = [pc EXCEPT ![c] = "transport"]
    /\ headers' = [headers EXCEPT ![c].request = BuildHeaders(c)]
    /\ UNCHANGED <<abortControllers, wakeQueue, listeners, outcome, aborted>>

\* Mutant of ValidationDone: the request goes out whatever hostIsValid is.
ValidationDoneUnchecked(c) ==
    /\ ~draining
    /\ pc[c] = "validating"
    /\ \E res \in HostnameResults(c) :
          IF res = "error" THEN Finally(c, "error") /\ UNCHANGED headers
          ELSE IF DisposedAfterValidation
               THEN Finally(c, "api disposed") /\ UNCHANGED headers
          ELSE StartTransport(c)
    /\ UNCHANGED <<config, mock, formData, request, resolved, response, resultData, disposed,
                   maxListeners, fetchPoolTimeoutId, poolTimers, fetchPoolCounter,
                   draining, callsAtDispose, resetWake>>

\* await #isFetchHostnameAllowed(...) settles (lines 334-336).
\* res: "allowed", "blocked" or "error" (the resolver's error rejects the await itself).
ValidationDone(c) ==
    /\ ~draining
    /\ pc[c] = "validating"
    /\ \E res \in HostnameResults(c) :
          IF res = "error" THEN Finally(c, "error") /\ UNCHANGED headers
          ELSE IF DisposedAfterValidation
               THEN Finally(c, "api disposed") /\ UNCHANGED headers
          ELSE IF res = "blocked" THEN Finally(c, "address blocked") /\ UNCHANGED headers
          ELSE StartTransport(c)
    /\ UNCHANGED <<config, mock, formData, request, resolved, response, resultData, disposed,
                   maxListeners, fetchPoolTimeoutId, poolTimers, fetchPoolCounter,
                   draining, callsAtDispose, resetWake>>

\* await fetchFn(...) settles (lines 372-411).  An aborted transport rejects with the
\* abort reason; a response that had already arrived when dispose ran is still delivered.
TransportDone(c) ==
    /\ ~draining
    /\ pc[c] = "transport"
    /\ \E ok \in TransportResults :
          /\ ok => aborted[c] # "aborted by timeout"
          /\ IF ~ok
             THEN Finally(c, IF aborted[c] # "none" THEN aborted[c] ELSE "error")
             ELSE IF DisposedAfterTransport THEN Finally(c, "api disposed")
             ELSE \E lengthOk \in LengthChecks(c) :
                     IF ~lengthOk THEN Finally(c, "fetch content length")
                     ELSE /\ pc' = [pc EXCEPT ![c] = "body"]
                          /\ UNCHANGED <<abortTimeout, abortControllers, wakeQueue,
                                         listeners, outcome, aborted>>
    /\ UNCHANGED <<config, mock, headers, formData, request, resolved, response,
                   resultData, disposed,
                   maxListeners, fetchPoolTimeoutId, poolTimers, fetchPoolCounter,
                   draining, callsAtDispose, resetWake>>

\* The body has been read (lines 397-423).
BodyDone(c) ==
    /\ ~draining
    /\ pc[c] = "body"
    /\ formData[c].state # "unread"
    /\ formData[c].reading = {}
    /\ \E ok \in BodyResults :
          IF ~ok THEN Finally(c, "error") /\ UNCHANGED <<resultData, headers>>
          ELSE IF DisposedAfterBody
               THEN Finally(c, "api disposed") /\ UNCHANGED <<resultData, headers>>
          ELSE /\ Finally(c, "fulfilled")
               /\ resultData' = [resultData EXCEPT
                     ![c] = NegotiatedType(request[c].type, response[c].contentType)]
               /\ headers' = [headers EXCEPT ![c].result = ResultHeaders(response[c])]
    /\ UNCHANGED <<config, mock, formData, request, resolved, response, disposed, maxListeners,
                   fetchPoolTimeoutId, poolTimers, fetchPoolCounter,
                   draining, callsAtDispose, resetWake>>

\* response.formData() has settled and the callback of map has run for every entry
\* (lines 398-406): a string entry is pushed at once, the callback of a file entry is
\* suspended at its await of mapFileToJson.
FormDataMap(c) ==
    /\ ~draining
    /\ pc[c] = "body"
    /\ formData[c].state = "unread"
    /\ NegotiatedType(request[c].type, response[c].contentType) = "formData"
    /\ LET entries == formData[c].entries
           indexes == DOMAIN entries
       IN formData' = [formData EXCEPT ![c] =
             [state |-> "mapped",
              entries |-> entries,
              pushed |-> SelectSeq([i \in indexes |-> i], LAMBDA i : entries[i] = "string"),
              reading |-> {i \in indexes : entries[i] = "file"}]]
    /\ UNCHANGED <<config, mock, request, resolved, response, resultData, headers, disposed,
                   abortControllers, listeners, maxListeners, fetchPoolTimeoutId,
                   poolTimers,
                   fetchPoolCounter, wakeQueue, draining, pc, outcome, aborted,
                   abortTimeout, callsAtDispose, resetWake>>

\* file.arrayBuffer() of one file settles (line 531): mapFileToJson returns and the
\* entry is pushed (line 403).  The reads of several files settle in any order.
FileRead(c) ==
    /\ ~draining
    /\ pc[c] = "body"
    /\ \E i \in formData[c].reading :
          formData' = [formData EXCEPT ![c].pushed = Append(@, i),
                                       ![c].reading = @ \ {i}]
    /\ UNCHANGED <<config, mock, request, resolved, response, resultData, headers, disposed,
                   abortControllers, listeners, maxListeners, fetchPoolTimeoutId,
                   poolTimers,
                   fetchPoolCounter, wakeQueue, draining, pc, outcome, aborted,
                   abortTimeout, callsAtDispose, resetWake>>

\* The rate-window timer fires (lines 323-327).
PoolTimerFire ==
    /\ poolTimers > 0
    /\ wakeQueue = <<>>
    /\ poolTimers' = poolTimers - 1
    /\ fetchPoolTimeoutId' = FALSE
    /\ fetchPoolCounter' = 0
    /\ wakeQueue' = Emit(<<>>)
    /\ listeners' = <<>>
    /\ pc' = Woken(pc, "woken")
    /\ draining' = (listeners # <<>>)
    /\ resetWake' = Len(listeners)
    /\ UNCHANGED <<config, mock, headers, formData, request, resolved, response,
                   resultData, disposed,
                   abortControllers, maxListeners, outcome, aborted,
                   abortTimeout, callsAtDispose>>

\* Mutant of AbortTimerFire: the timeout aborts every controller of the active set.
AbortTimerFireAll(c) ==
    /\ c \in abortTimeout
    /\ wakeQueue = <<>>
    /\ abortTimeout' = abortTimeout \ {c}
    /\ aborted' = [d \in Calls |-> IF d \in abortControllers /\ aborted[d] = "none"
                                   THEN "aborted by timeout" ELSE aborted[d]]
    /\ UNCHANGED <<config, mock, headers, formData, request, resolved, response,
                   resultData, disposed,
                   abortControllers, listeners, maxListeners,
                   fetchPoolTimeoutId,
                   poolTimers, fetchPoolCounter, wakeQueue, draining, pc, outcome,
                   callsAtDispose, resetWake>>

\* Mutant of AbortTimerFire: the timeout replaces the reason of a token already aborted.
AbortTimerFireOverride(c) ==
    /\ c \in abortTimeout
    /\ wakeQueue = <<>>
    /\ abortTimeout' = abortTimeout \ {c}
    /\ aborted' = [aborted EXCEPT ![c] = "aborted by timeout"]
    /\ UNCHANGED <<config, mock, headers, formData, request, resolved, response, resultData,
                   disposed, abortControllers, listeners, maxListeners, fetchPoolTimeoutId,
                   poolTimers, fetchPoolCounter, wakeQueue, draining, pc, outcome,
                   callsAtDispose, resetWake>>

\* A per-call timeout fires (lines 368-370).
AbortTimerFire(c) ==
    /\ c \in abortTimeout
    /\ wakeQueue = <<>>
    /\ abortTimeout' = abortTimeout \ {c}
    /\ aborted' = [aborted EXCEPT ![c] = IF @ = "none" THEN "aborted by timeout" ELSE @]
    /\ UNCHANGED <<config, mock, headers, formData, request, resolved, response,
                   resultData, disposed,
                   abortControllers, listeners, maxListeners,
                   fetchPoolTimeoutId,
                   poolTimers, fetchPoolCounter, wakeQueue, draining, pc, outcome,
                   callsAtDispose, resetWake>>

\* Mutant of Dispose: setMaxListeners(0) is left out, the wait queue stays open.
DisposeKeepsQueue ==
    /\ ~draining
    /\ wakeQueue' = Emit(wakeQueue)
    /\ pc' = Woken(pc, "wokenErr")
    /\ listeners' = <<>>
    /\ disposed' = TRUE
    /\ aborted' = [c \in Calls |-> IF c \in abortControllers /\ aborted[c] = "none"
                                   THEN "aborted by api" ELSE aborted[c]]
    /\ callsAtDispose' = IF disposed THEN callsAtDispose
                          ELSE Cardinality({c \in Calls : pc[c] # "idle"})
    /\ UNCHANGED <<config, mock, headers, formData, request, resolved, response, resultData,
                   abortControllers, fetchPoolTimeoutId,
                   poolTimers, fetchPoolCounter, maxListeners,
                   draining, outcome, abortTimeout, resetWake>>

\* [Symbol.dispose] (lines 509-517).
Dispose ==
    /\ ~draining
    /\ wakeQueue' = Emit(wakeQueue)
    /\ pc' = Woken(pc, "wokenErr")
    /\ maxListeners' = 0
    /\ listeners' = <<>>
    /\ disposed' = TRUE
    /\ aborted' = [c \in Calls |-> IF c \in abortControllers /\ aborted[c] = "none"
                                   THEN "aborted by api" ELSE aborted[c]]
    /\ callsAtDispose' = IF disposed THEN callsAtDispose
                          ELSE Cardinality({c \in Calls : pc[c] # "idle"})
    /\ UNCHANGED <<config, mock, headers, formData, request, resolved, response, resultData,
                   abortControllers, fetchPoolTimeoutId, poolTimers, fetchPoolCounter,
                   draining, outcome, abortTimeout, resetWake>>

Next ==
    \/ \E c \in Calls : FetchCall(c)
    \/ Resume
    \/ \E c \in Calls : ValidationDone(c)
    \/ \E c \in Calls : TransportDone(c)
    \/ \E c \in Calls : BodyDone(c)
    \/ PoolTimerFire
    \/ \E c \in Calls : AbortTimerFire(c)
    \/ Dispose

Spec == Init /\ [][Next]_vars

-----------------------------------------------------------------------------
\* The tests "awaiting fetch max active" (test lines 179-200) and "awaiting fetch pool"
\* (lines 142-163): seven fetch calls are made in one job, before any continuation
\* runs; nothing is disposed and no call has a timeout.

InitTest ==
    /\ disposed = FALSE
    /\ abortControllers = {}
    /\ listeners = <<>>
    /\ maxListeners = config.fetchMaxAwaitingProcesses
    /\ fetchPoolTimeoutId = FALSE
    /\ poolTimers = 0
    /\ fetchPoolCounter = 0
    /\ wakeQueue = <<>>
    /\ draining = FALSE
    /\ pc = [c \in 1..TestCalls |-> "idle"]
    /\ outcome = [c \in 1..TestCalls |-> "pending"]
    /\ aborted = [c \in 1..TestCalls |-> "none"]
    /\ abortTimeout = {}
    /\ mock = "test"
    /\ callsAtDispose = Undefined
    /\ resetWake = 0
    /\ request = [c \in 1..TestCalls |-> DefaultRequest]
    /\ resolved = [c \in 1..TestCalls |-> ResolveOk(<<>>)]
    /\ response = [c \in 1..TestCalls |-> DefaultResponse]
    /\ resultData = [c \in 1..TestCalls |-> "none"]
    /\ headers = [c \in 1..TestCalls |-> NoHeaders]
    /\ formData = [c \in 1..TestCalls |-> NoFormData]

InitMaxActive ==
    /\ config = [fetchMaxActiveCount |-> TestMaxActiveCount,
                 fetchMaxAwaitingProcesses |-> TestMaxAwaitingProcesses,
                 fetchPoolTimeout |-> 0, fetchPoolCount |-> 0]
    /\ InitTest

\* The pool test, with every quota up to the test's.
InitPool ==
    /\ config \in {[fetchMaxActiveCount |-> Undefined,
                     fetchMaxAwaitingProcesses |-> TestMaxAwaitingProcesses,
                     fetchPoolTimeout |-> 1, fetchPoolCount |-> q] : q \in 1..TestPoolCount}
    /\ InitTest

AllCalled == \A c \in Calls : pc[c] # "idle"

NextMaxActive ==
    \/ \E c \in Calls : FetchCall(c)
    \/ AllCalled /\ Resume
    \/ AllCalled /\ \E c \in Calls : ValidationDone(c)
    \/ AllCalled /\ \E c \in Calls : TransportDone(c)
    \/ AllCalled /\ \E c \in Calls : BodyDone(c)

NextPool ==
    \/ NextMaxActive
    \/ AllCalled /\ PoolTimerFire

\* Promise jobs run, the mocks answer, armed timers fire.
FairTest ==
    /\ WF_vars(Resume)
    /\ \A c \in 1..TestCalls :
          /\ WF_vars(FetchCall(c))
          /\ WF_vars(ValidationDone(c))
          /\ WF_vars(TransportDone(c))
          /\ WF_vars(BodyDone(c))

SpecMaxActive == InitMaxActive /\ [][NextMaxActive]_vars /\ FairTest

SpecPool == InitPool /\ [][NextPool]_vars /\ FairTest /\ WF_vars(PoolTimerFire)

-----------------------------------------------------------------------------
\* One fetch call with given arguments on a gateway without limits: the hostname, the
\* configured lists, the resolver's answer and the response headers are drawn by Init,
\* and the checks of the code decide what happens to the call.

\* The sequences over S of length at most n.
SeqsUpTo(S, n) == UNION {[1..k -> S] : k \in 0..n}

PolicyConfig(allowIp, ipWhitelist, ipBlacklist, domainWhitelist, domainBlacklist, maxLength) ==
    [fetchMaxActiveCount |-> Undefined, fetchMaxAwaitingProcesses |-> 0,
     fetchPoolTimeout |-> 0, fetchPoolCount |-> 0,
     fetchAllowIp |-> allowIp,
     ipWhitelist |-> ipWhitelist, ipBlacklist |-> ipBlacklist,
     domainWhitelist |-> domainWhitelist, domainBlacklist |-> domainBlacklist,
     fetchMaxContentLength |-> maxLength]

InitOneCall ==
    /\ disposed = FALSE
    /\ abortControllers = {}
    /\ listeners = <<>>
    /\ maxListeners = config.fetchMaxAwaitingProcesses
    /\ fetchPoolTimeoutId = FALSE
    /\ poolTimers = 0
    /\ fetchPoolCounter = 0
    /\ wakeQueue = <<>>
    /\ draining = FALSE
    /\ pc = [c \in {1} |-> "idle"]
    /\ outcome = [c \in {1} |-> "pending"]
    /\ aborted = [c \in {1} |-> "none"]
    /\ abortTimeout = {}
    /\ mock = "policy"
    /\ callsAtDispose = Undefined
    /\ resetWake = 0
    /\ resultData = [c \in {1} |-> "none"]
    /\ headers = [c \in {1} |-> NoHeaders]

\* ipWhitelist and ipBlacklist: not given, or up to MaxMasks masks.
MaskLists == {NoList} \cup {List(l) : l \in SeqsUpTo(Netmasks, MaxMasks)}

\* A literal IP hostname with fetchAllowIp, under every pair of mask lists.
InitIp ==
    /\ \E ipWhitelist \in MaskLists, ipBlacklist \in MaskLists :
          config = PolicyConfig(TRUE, ipWhitelist, ipBlacklist, NoList, NoList, Undefined)
    /\ \E ip \in Ips : request = [c \in {1} |-> [hostname |-> IpHost(ip), type |-> NoType]]
    /\ resolved = [c \in {1} |-> ResolveOk(<<>>)]
    /\ response = [c \in {1} |-> DefaultResponse]
    /\ formData = [c \in {1} |-> NoFormData]
    /\ InitOneCall

\* Domain names, and the entries of the domain lists: the names as strings, and as
\* RegExp sources (the empty source matches every name).
DomainNames ==
    {<<"a">>, <<"b">>, <<"a", "a">>, <<"a", "b">>, <<"b", "a">>, <<"b", "b">>}
DomainPatterns ==
    {StringPattern(n) : n \in DomainNames} \cup
    {RegExpPattern(n) : n \in DomainNames \cup {<<>>}}
PatternLists == {NoList} \cup {List(l) : l \in SeqsUpTo(DomainPatterns, MaxMasks)}

\* A domain name that resolves to one address, no IP list, under every pair of
\* domain lists.
InitDomain ==
    /\ \E domainWhitelist \in PatternLists, domainBlacklist \in PatternLists :
          config = PolicyConfig(FALSE, NoList, NoList, domainWhitelist, domainBlacklist,
                                Undefined)
    /\ \E name \in DomainNames :
          request = [c \in {1} |-> [hostname |-> DomainHost(name), type |-> NoType]]
    /\ resolved = [c \in {1} |-> ResolveOk(<<1>>)]
    /\ response = [c \in {1} |-> DefaultResponse]
    /\ formData = [c \in {1} |-> NoFormData]
    /\ InitOneCall

\* Lists of at most one entry.
ShortLists(S) == {NoList, List(<<>>)} \cup {List(<<x>>) : x \in S}

\* What the resolver can answer: an error, or up to MaxAddresses addresses.
ResolverAnswers == {ResolveError} \cup {ResolveOk(a) : a \in SeqsUpTo(Ips, MaxAddresses)}

\* A hostname of either kind.  A literal IP: fetchAllowIp either way, short mask
\* lists; the resolver is not asked.  A domain name: short lists of both kinds and
\* every answer of the resolver; fetchAllowIp is not read.
InitHost ==
    /\ \E ipBlacklist \in ShortLists(Netmasks),
          ipWhitelist \in ShortLists({m \in Netmasks : m.bitmask = 1}) :
          \/ /\ \E allowIp \in BOOLEAN :
                   config = PolicyConfig(allowIp, ipWhitelist, ipBlacklist, NoList, NoList,
                                         Undefined)
             /\ \E ip \in Ips :
                   request = [c \in {1} |-> [hostname |-> IpHost(ip), type |-> NoType]]
             /\ resolved = [c \in {1} |-> ResolveOk(<<>>)]
          \/ /\ \E domainWhitelist \in ShortLists({StringPattern(<<"a">>)}),
                   domainBlacklist \in ShortLists({RegExpPattern(<<"b">>)}) :
                   config = PolicyConfig(FALSE, ipWhitelist, ipBlacklist, domainWhitelist,
                                         domainBlacklist, Undefined)
             /\ \E name \in {<<"a">>, <<"a", "b">>} :
                   request = [c \in {1} |-> [hostname |-> DomainHost(name), type |-> NoType]]
             /\ resolved \in [{1} -> ResolverAnswers]
    /\ response = [c \in {1} |-> DefaultResponse]
    /\ formData = [c \in {1} |-> NoFormData]
    /\ InitOneCall

\* The characters of content-length values ("x" is any character that is no digit),
\* and the caps: the numbers written with them.
LengthChars == {"0", "1", "5", "x"}
LengthTexts == SeqsUpTo(LengthChars, MaxHeaderLen)
Caps == {Number(t) : t \in LengthTexts} \ {NaN}

\* An allowed literal IP hostname; either every cap and every content-length header,
\* or every param.type and every content-type header.
InitResponse ==
    /\ request \in [{1} -> [hostname : {IpHost(1)}, type : {NoType} \cup BodyTypes]]
    /\ \E maxLength \in {Undefined} \cup Caps :
          config = PolicyConfig(TRUE, NoList, NoList, NoList, NoList, maxLength)
    /\ \/ /\ request[1].type = NoType
          /\ \E h \in {NoHeader} \cup {Header(t) : t \in LengthTexts} :
                response = [c \in {1} |-> [contentLength |-> h, contentType |-> NoHeader]]
       \/ /\ config.fetchMaxContentLength = Undefined
          /\ \E h \in {NoHeader} \cup {Header(t) : t \in SeqsUpTo(TypePieces, MaxTypeTokens)} :
                response = [c \in {1} |-> [contentLength |-> NoHeader, contentType |-> h]]
    /\ resolved = [c \in {1} |-> ResolveOk(<<>>)]
    /\ formData = [c \in {1} |-> NoFormData]
    /\ InitOneCall

\* The call is made and its hostname validated.
NextValidation ==
    \/ \E c \in Calls : FetchCall(c)
    \/ \E c \in Calls : ValidationDone(c)

\* The call is made and runs to its end.
NextOneCall ==
    \/ \E c \in Calls : FetchCall(c)
    \/ \E c \in Calls : ValidationDone(c)
    \/ \E c \in Calls : TransportDone(c)
    \/ \E c \in Calls : BodyDone(c)

SpecIp == InitIp /\ [][NextValidation]_vars
SpecDomain == InitDomain /\ [][NextValidation]_vars
SpecHost == InitHost /\ [][NextValidation]_vars

\* The same call, with dispose invoked at any moment.
NextValidationDispose == NextValidation \/ Dispose
SpecHostDispose == InitHost /\ [][NextValidationDispose]_vars
\* One call whose response is a form of at most MaxEntries entries, strings and files;
\* the caller asks for formData or the content-type says so.
Forms == SeqsUpTo({"string", "file"}, MaxEntries)
InitFormData ==
    /\ config = PolicyConfig(TRUE, NoList, NoList, NoList, NoList, Undefined)
    /\ request \in [{1} -> {[hostname |-> IpHost(1), type |-> t] : t \in {NoType, "formData"}}]
    /\ resolved = [c \in {1} |-> ResolveOk(<<>>)]
    /\ response \in [{1} -> {[contentLength |-> NoHeader, contentType |-> Header(t)] :
                                t \in {MultipartFormData, ApplicationJson}}]
    /\ formData \in [{1} -> {UnreadForm(f) : f \in Forms}]
    /\ NegotiatedType(request[1].type, response[1].contentType) = "formData"
    /\ InitOneCall

NextFormData == \E c \in Calls : FormDataMap(c) \/ FileRead(c)

SpecFormData == InitFormData /\ [][NextOneCall \/ NextFormData]_vars

\* One call with every object of at most MaxHeaders headers as param.headers (or none)
\* and as config.fetchHeaders (an object, no option, or a function and what it returns).
\* The names differ in case only ("a", "A") or altogether ("b").
HeaderNames == {"a", "A", "b"}
HeaderValues == {"1", "2"}
HeaderObjects ==
    {o \in SeqsUpTo(HeaderNames \X HeaderValues, MaxHeaders) :
        \A i, j \in DOMAIN o : o[i][1] = o[j][1] => i = j}
HeaderConfigs ==
    {HeadersObject(o) : o \in HeaderObjects}
       \cup {HeadersFunction(TRUE, o) : o \in HeaderObjects}
       \cup {HeadersFunction(FALSE, <<>>)}
InitHeaders ==
    /\ \/ config = PolicyConfig(TRUE, NoList, NoList, NoList, NoList, Undefined)
       \/ \E h \in HeaderConfigs :
             config = PolicyConfig(TRUE, NoList, NoList, NoList, NoList, Undefined)
                         @@ [fetchHeaders |-> h]
    /\ \/ request = [c \in {1} |-> DefaultRequest]
       \/ \E o \in HeaderObjects :
             request = [c \in {1} |-> DefaultRequest @@ [headers |-> o]]
    /\ resolved = [c \in {1} |-> ResolveOk(<<>>)]
    /\ response \in [{1} -> {DefaultResponse,
                             [contentLength |-> Header(<<"1">>), contentType |-> Header(Text)],
                             [contentLength |-> NoHeader, contentType |-> Header(Text)]}]
    /\ formData = [c \in {1} |-> NoFormData]
    /\ InitOneCall

SpecHeaders == InitHeaders /\ [][NextOneCall]_vars

SpecResponse == InitResponse /\ [][NextOneCall]_vars

-----------------------------------------------------------------------------
\* What the properties speak of.

N == config.fetchMaxActiveCount
M == config.fetchMaxAwaitingProcesses
Q == config.fetchPoolCount

\* Call c is suspended in the wait loop: a registered listener, or woken and not yet
\* re-checked.
Suspended(c) == pc[c] \in {"waiting", "woken", "wokenErr"}

\* This step is the arrival of call c (the synchronous part of fetch).
Arrives(c) == pc[c] = "idle" /\ pc'[c] # "idle"

\* This step admits call c (line 320): it starts validating, or its URL did not parse.
AdmittedStep(c) ==
    /\ pc[c] \in {"idle", "woken", "wokenErr"}
    /\ pc'[c] = "validating" \/ (pc'[c] = "done" /\ outcome'[c] = "error")

\* The admission state is left as it was.
AdmissionUnchanged ==
    UNCHANGED <<abortControllers, listeners, wakeQueue, fetchPoolCounter,
                fetchPoolTimeoutId>>

-----------------------------------------------------------------------------
\* C1: with fetchMaxActiveCount = N configured, the active set (#abortControllers)
\* never holds more than N calls.
C1_ActiveAtMostN ==
    N # Undefined => Cardinality(abortControllers) <= N

\* C1 witness: the cap is reached (two calls active, cap 2) and a third caller waits.
C1_Witness ==
    /\ N = 2
    /\ Cardinality(abortControllers) = 2
    /\ \E c \in Calls : pc[c] = "waiting"

\* C2: on a live gateway, a call arriving while N calls are active and M callers are
\* registered in the wait queue is rejected with "fetch pool overflow" and is neither
\* enqueued nor admitted; a call arriving while fewer than N are active (and no rate
\* block holds) is admitted; one arriving while N are active and fewer than M wait is
\* appended to the wait queue.
C2_OverflowBeforeEnqueue ==
    [][\A c \in Calls :
         (Arrives(c) /\ ~disposed /\ N # Undefined) =>
            /\ (Cardinality(abortControllers) = N /\ Len(listeners) = M) =>
                  /\ pc'[c] = "done"
                  /\ outcome'[c] = "fetch pool overflow"
                  /\ AdmissionUnchanged
            /\ (Cardinality(abortControllers) < N /\ ~HasTimeoutBlock) =>
                  AdmittedStep(c)
            /\ (Cardinality(abortControllers) = N /\ Len(listeners) < M) =>
                  /\ pc'[c] = "waiting"
                  /\ listeners' = Append(listeners, c)
                  /\ outcome'[c] = "pending"]_vars

\* C2 witness: N = 1, M = 1; call 1 is active, call 2 waits, call 3 was rejected with
\* the overflow error.
C2_Witness ==
    /\ N = 1 /\ M = 1 /\ ~disposed
    /\ abortControllers = {1}
    /\ listeners = <<2>>
    /\ outcome[3] = "fetch pool overflow"

\* C3: the wait queue never holds more than fetchMaxAwaitingProcesses listeners.
C3_ListenersAtMostM ==
    Len(listeners) <= M

\* C3 witness: the wait queue is full with two listeners.
C3_Witness ==
    /\ M = 2
    /\ Len(listeners) = 2

\* C4: with the rate pool configured, the rate-pool counter never exceeds
\* fetchPoolCount; every admission adds one to it and only the timer resets it, so it
\* counts the admissions since the last reset.
C4_CounterAtMostQ ==
    config.fetchPoolTimeout # 0 => fetchPoolCounter <= Q

\* C4 witness: the quota of 2 is used up inside one window and a caller waits for the
\* reset.
C4_Witness ==
    /\ config.fetchPoolTimeout # 0
    /\ Q = 2
    /\ fetchPoolCounter = 2
    /\ fetchPoolTimeoutId
    /\ \E c \in Calls : pc[c] = "waiting"

\* C8: once dispose has been invoked, a fetch call fails at once with "api disposed":
\* it settles in the step of its arrival, is neither enqueued nor admitted (so neither
\* the resolver nor the transport is reached) and leaves the admission state alone.
C8_FetchAfterDispose ==
    [][\A c \in Calls :
         (disposed /\ Arrives(c)) =>
            /\ pc'[c] = "done"
            /\ outcome'[c] = "api disposed"
            /\ ~AdmittedStep(c)
            /\ AdmissionUnchanged]_vars

\* C8 witness: a call made after dispose has been rejected with "api disposed".
C8_Witness ==
    /\ disposed
    /\ \E c \in Calls :
          /\ c > callsAtDispose
          /\ pc[c] = "done"
          /\ outcome[c] = "api disposed"


\* C5: in the test "awaiting fetch max active" (fetchMaxActiveCount 3, seven calls at
\* once) never more than three calls are active, and every call, the four that were
\* suspended included, is eventually fulfilled.
C5_SevenCallsFulfil ==
    /\ [](Cardinality(abortControllers) <= TestMaxActiveCount)
    /\ \A c \in 1..TestCalls : <>(outcome[c] = "fulfilled")

\* C5 witness: the first batch of three is fulfilled, the second is active, the
\* seventh call still waits.
C5_Witness ==
    /\ \A c \in 1..3 : outcome[c] = "fulfilled"
    /\ abortControllers = 4..6
    /\ pc[7] = "waiting"

\* The calls that have been admitted so far.
AdmittedCalls == {c \in Calls : pc[c] \notin {"idle", "waiting", "woken", "wokenErr"}}

\* C6: in the test "awaiting fetch pool" (seven calls at once, quota Q): when the
\* window timer fires the counter is 0 and every listener is woken; when the k woken
\* callers have re-checked, min(k, Q) of them have been admitted in the new window and
\* the others are listeners again; so the calls are admitted Q per window, in order:
\* 3, 3, 1 for Q = 3.
C6_WindowReset ==
    /\ [][(fetchPoolTimeoutId /\ ~fetchPoolTimeoutId') =>
             /\ fetchPoolCounter' = 0
             /\ listeners' = <<>>
             /\ \A c \in Range(listeners) : pc'[c] = "woken"]_vars
    /\ [][(resetWake > 0 /\ resetWake' = 0) =>
             /\ fetchPoolCounter' = Min(resetWake, Q)
             /\ Len(listeners') = resetWake - Min(resetWake, Q)]_vars
    /\ [](AllCalled /\ resetWake = 0 =>
             /\ Cardinality(AdmittedCalls) \in
                   {Min(w * Q, TestCalls) : w \in 1..TestCalls}
             /\ AdmittedCalls = 1..Cardinality(AdmittedCalls))

\* C6 witness: Q = 3, second window: calls 4, 5, 6 were admitted by the first reset,
\* call 7 re-checked and is a listener again.
C6_Witness ==
    /\ Q = 3
    /\ Cardinality(AdmittedCalls) = 6
    /\ fetchPoolCounter = 3
    /\ listeners = <<7>>
    /\ resetWake = 0
    /\ \E c \in 4..6 : pc[c] = "validating"

\* C7: suspended callers are served in arrival order: when a and b have both been
\* suspended and a was enqueued first (a was called first), b is not admitted while a
\* is still suspended.
C7_FifoService ==
    [][\A a, b \in Calls :
         (a < b /\ Suspended(a) /\ Suspended(b)) =>
            ~(AdmittedStep(b) /\ pc'[a] \in {"waiting", "woken", "wokenErr"})]_vars

\* C9: after dispose, a caller that is still in the wait loop (its listener was
\* rejected by dispose, or it had been woken before dispose and has not re-checked)
\* leaves the loop only by being rejected with "api disposed".
C9_WaitersRejectedDisposed ==
    [][\A c \in Calls :
         (disposed /\ Suspended(c) /\ pc'[c] # pc[c]) =>
            /\ pc'[c] = "done"
            /\ outcome'[c] = "api disposed"]_vars

\* C10: dispose aborts the token of every call in the active set, and from then on
\* no call is fulfilled: whatever phase a pending call is in, it settles rejected.
C10_NoFulfilAfterDispose ==
    [][/\ (~disposed /\ disposed') =>
             \A c \in abortControllers : aborted'[c] # "none"
       /\ disposed =>
             \A c \in Calls :
                (outcome[c] = "pending" /\ outcome'[c] # "pending") =>
                   outcome'[c] \notin {"pending", "fulfilled"}]_vars

\* C10 witness: no limit is configured, three calls were pending (admitted, not
\* settled) when dispose was invoked, and all three were rejected afterwards.
C10_Witness ==
    /\ disposed
    /\ callsAtDispose = 3
    /\ N = Undefined /\ config.fetchPoolTimeout = 0
    /\ \A c \in 1..3 : outcome[c] \in {"api disposed", "aborted by api"}
    /\ \E c \in 1..3 : outcome[c] = "api disposed"
    /\ \E c \in 1..3 : outcome[c] = "aborted by api"

-----------------------------------------------------------------------------
\* The calls that were admitted and have not settled.
InFlight == {c \in Calls : pc[c] \in {"validating", "transport", "body"}}

\* This step settles call c after it was admitted: from a phase inside the try block,
\* or in the step of its admission when its URL does not parse.
SettlesAdmitted(c) ==
    /\ pc'[c] = "done"
    /\ \/ pc[c] \in {"validating", "transport", "body"}
       \/ AdmittedStep(c)

\* C11: the active set holds exactly the admitted calls that have not settled, a
\* per-call timeout is armed only for such a call, and the step that settles an
\* admitted call, whatever its outcome, removes its controller from the active set,
\* clears its timeout and emits "update": every listener is removed and woken.
C11_ReleasedOnEveryExit ==
    /\ [](abortControllers = InFlight /\ abortTimeout \subseteq InFlight)
    /\ [][\A c \in Calls :
            SettlesAdmitted(c) =>
               /\ c \notin abortControllers'
               /\ c \notin abortTimeout'
               /\ listeners' = <<>>
               /\ listeners # <<>> =>
                     /\ wakeQueue' # <<>>
                     /\ wakeQueue'[Len(wakeQueue')] = listeners
                     /\ \A w \in Range(listeners) : pc'[w] = "woken"]_vars

\* C11 witness: with a cap of one, call 1 was blocked by the address policy, call 2 was
\* refused for its content length, call 3 was aborted by its timeout; each release woke
\* the next caller and the active set is empty again.
C11_Witness ==
    /\ N = 1
    /\ outcome[1] = "address blocked"
    /\ outcome[2] = "fetch content length"
    /\ outcome[3] = "aborted by timeout"
    /\ abortControllers = {}
    /\ abortTimeout = {}

-----------------------------------------------------------------------------
\* The address policy as the claims state it.

\* The addresses of a mask's block.
MaskBlock(m) == m.base .. (m.base + 2^(IpBits - m.bitmask) - 1)

\* ip lies in some mask of the list.
InSomeMask(list, ip) == \E i \in 1..Len(list.items) : ip \in MaskBlock(list.items[i])

IpDenied(ip) == config.ipBlacklist.given /\ InSomeMask(config.ipBlacklist, ip)
IpListed(ip) == config.ipWhitelist.given => InSomeMask(config.ipWhitelist, ip)

\* The entry e matches the name: the same string, or a RegExp whose source occurs in it.
EntryMatches(e, name) ==
    \/ ~e.regexp /\ e.source = name
    \/ e.regexp /\ \E i \in 1..(Len(name) + 1), j \in 0..Len(name) :
                      SubSeq(name, i, j) = e.source

MatchesSome(list, name) == \E i \in 1..Len(list.items) : EntryMatches(list.items[i], name)

DomainDenied(name) == config.domainBlacklist.given /\ MatchesSome(config.domainBlacklist, name)
DomainListed(name) == config.domainWhitelist.given => MatchesSome(config.domainWhitelist, name)

\* The hostname of call c has been validated: the transport has been invoked, or the
\* call was turned away.
Validated(c) == pc[c] \in {"transport", "body", "done"}
TransportInvoked(c) == pc[c] \in {"transport", "body"} \/ outcome[c] = "fulfilled"

\* The hostname of call c is one the address policy rejects, or its resolution fails.
HostnameRejected(c) ==
    LET h == request[c].hostname
        a == resolved[c]
    IN IF h.isIP
       THEN ~config.fetchAllowIp \/ IpDenied(h.ip) \/ ~IpListed(h.ip)
       ELSE \/ DomainDenied(h.name)
            \/ ~DomainListed(h.name)
            \/ a.error
            \/ \E i \in 1..Len(a.addresses) :
                  IpDenied(a.addresses[i]) \/ ~IpListed(a.addresses[i])

\* C12: the transport function is invoked only for a call whose hostname the address
\* policy accepted: when the hostname is rejected (a direct IP that is not allowed, a
\* domain denied or not on the allow-list, a resolved IP denied) or its resolution
\* fails, the call never reaches the transport and ends rejected.
C12_TransportOnlyAfterAccept ==
    \A c \in Calls :
       HostnameRejected(c) =>
          /\ ~TransportInvoked(c)
          /\ Validated(c) =>
                pc[c] = "done" /\ outcome[c] \in {"address blocked", "error"}

\* C12 witness: a domain name passed the domain lists, the resolver answered two
\* addresses, the second is on the blacklist: the call was rejected before the
\* transport.
C12_Witness ==
    /\ ~request[1].hostname.isIP
    /\ ~resolved[1].error
    /\ Len(resolved[1].addresses) = 2
    /\ ~IpDenied(resolved[1].addresses[1])
    /\ IpDenied(resolved[1].addresses[2])
    /\ pc[1] = "done"
    /\ outcome[1] = "address blocked"

\* C13: #isIpAllowed, on a literal IP hostname with fetchAllowIp: an IP inside a mask
\* of the blacklist is rejected, whatever the whitelist says; an IP in no mask of the
\* blacklist is allowed exactly when no whitelist is given or a mask of it holds the IP.
C13_DenyOverridesAllow ==
    \A c \in Calls :
       Validated(c) =>
          LET ip == request[c].hostname.ip
          IN /\ IpDenied(ip) => (pc[c] = "done" /\ outcome[c] = "address blocked")
             /\ ~IpDenied(ip) => (pc[c] = "transport" <=> IpListed(ip))
             /\ pc[c] = "done" => outcome[c] = "address blocked"
             /\ IsIpAllowed(ip) <=> (~IpDenied(ip) /\ IpListed(ip))

\* C13 witness: the IP lies in a mask of the whitelist and in a mask of the blacklist,
\* and the call was rejected.
C13_Witness ==
    /\ config.ipWhitelist.given
    /\ InSomeMask(config.ipWhitelist, request[1].hostname.ip)
    /\ IpDenied(request[1].hostname.ip)
    /\ pc[1] = "done"
    /\ outcome[1] = "address blocked"

\* C14: #isDomainAllowed, on a domain name that resolves: a name matching an entry of
\* the blacklist, string or RegExp, is rejected even when an entry of the whitelist
\* matches it; any other name is accepted exactly when no whitelist is given or one of
\* its entries, string or RegExp, matches.
C14_DomainDenyOverridesAllow ==
    \A c \in Calls :
       Validated(c) =>
          LET name == request[c].hostname.name
          IN /\ DomainDenied(name) => (pc[c] = "done" /\ outcome[c] = "address blocked")
             /\ ~DomainDenied(name) => (pc[c] = "transport" <=> DomainListed(name))
             /\ pc[c] = "done" => outcome[c] = "address blocked"
             /\ IsDomainAllowed(name) <=> (~DomainDenied(name) /\ DomainListed(name))

\* C14 witness: the name is a string entry of the whitelist and a RegExp entry of the
\* blacklist matches it (without being the whole name); the call was rejected.
C14_Witness ==
    /\ config.domainWhitelist = List(<<StringPattern(request[1].hostname.name)>>)
    /\ config.domainBlacklist.given
    /\ \E i \in 1..Len(config.domainBlacklist.items) :
          /\ config.domainBlacklist.items[i].regexp
          /\ config.domainBlacklist.items[i].source # request[1].hostname.name
          /\ EntryMatches(config.domainBlacklist.items[i], request[1].hostname.name)
    /\ pc[1] = "done"
    /\ outcome[1] = "address blocked"

\* C15: a call whose hostname is a literal IP is rejected ("address blocked") whenever
\* fetchAllowIp is false, whatever the IP lists hold; with fetchAllowIp it reaches the
\* transport exactly when #isIpAllowed passes for that IP.
C15_DirectIp ==
    \A c \in Calls :
       (Validated(c) /\ request[c].hostname.isIP) =>
          /\ ~config.fetchAllowIp => (pc[c] = "done" /\ outcome[c] = "address blocked")
          /\ config.fetchAllowIp =>
                /\ pc[c] = "transport" <=> IsIpAllowed(request[c].hostname.ip)
                /\ pc[c] = "done" => outcome[c] = "address blocked"

\* C15 witness: fetchAllowIp is false, the literal IP is on the whitelist and not on
\* the blacklist, and the call was rejected.
C15_Witness ==
    /\ request[1].hostname.isIP
    /\ ~config.fetchAllowIp
    /\ config.ipWhitelist.given
    /\ InSomeMask(config.ipWhitelist, request[1].hostname.ip)
    /\ ~IpDenied(request[1].hostname.ip)
    /\ pc[1] = "done"
    /\ outcome[1] = "address blocked"

\* C16: for a domain name the domain policy accepts, the transport is reached only
\* if the resolver reported no error and every address it returned passes
\* #isIpAllowed; when it reports an error or some address fails, the call is rejected
\* (with the resolver's error, or "address blocked") and its controller has left the
\* active set.
C16_EveryResolvedIp ==
    \A c \in Calls :
       LET h == request[c].hostname
           a == resolved[c]
           someFails == \E i \in 1..Len(a.addresses) : ~IsIpAllowed(a.addresses[i])
       IN (Validated(c) /\ ~h.isIP /\ IsDomainAllowed(h.name)) =>
             /\ pc[c] = "transport" => (~a.error /\ ~someFails)
             /\ a.error =>
                   pc[c] = "done" /\ outcome[c] = "error" /\ c \notin abortControllers
             /\ (~a.error /\ someFails) =>
                   /\ pc[c] = "done"
                   /\ outcome[c] = "address blocked"
                   /\ c \notin abortControllers

\* C16 witness: two addresses, the first passes #isIpAllowed, the second does not; the
\* call was rejected and released.
C16_Witness ==
    /\ ~request[1].hostname.isIP
    /\ IsDomainAllowed(request[1].hostname.name)
    /\ ~resolved[1].error
    /\ Len(resolved[1].addresses) = 2
    /\ IsIpAllowed(resolved[1].addresses[1])
    /\ ~IsIpAllowed(resolved[1].addresses[2])
    /\ pc[1] = "done"
    /\ outcome[1] = "address blocked"
    /\ abortControllers = {}

\* C17: a domain name for which the resolver succeeds with no address at all is never
\* allowed: the call does not reach the transport.
C17_ZeroAddressesRejected ==
    \A c \in Calls :
       (/\ ~request[c].hostname.isIP
        /\ ~resolved[c].error
        /\ resolved[c].addresses = <<>>) => ~TransportInvoked(c)

-----------------------------------------------------------------------------
\* The response as the claims state it.

\* The text is a decimal number: one digit or more, nothing else.
DigitsOnly(text) == text # <<>> /\ \A i \in 1..Len(text) : IsDigit(text[i])

\* The value of a decimal number, from its leading digit.
RECURSIVE DecimalValue(_)
DecimalValue(text) ==
    IF text = <<>> THEN 0
    ELSE DigitValue(Head(text)) * 10^(Len(text) - 1) + DecimalValue(Tail(text))

\* The call got past the content-length check.
LengthAccepted(c) == pc[c] = "body" \/ outcome[c] = "fulfilled"

\* C18: with fetchMaxContentLength = C configured, a response is accepted exactly when
\* its content-length header is present, is a decimal number and is at most C (0 and C
\* itself are accepted); a missing, empty, non-numeric or larger value rejects the call
\* with "fetch content length"; without a cap no response is rejected for its length.
C18_ContentLengthCap ==
    \A c \in Calls :
       pc[c] \in {"body", "done"} =>
          LET h == response[c].contentLength
              cap == config.fetchMaxContentLength
              fits == h.present /\ DigitsOnly(h.text) /\ DecimalValue(h.text) <= cap
          IN /\ cap # Undefined =>
                   /\ LengthAccepted(c) <=> fits
                   /\ ~fits => outcome[c] = "fetch content length"
             /\ cap = Undefined =>
                   LengthAccepted(c) /\ outcome[c] # "fetch content length"

\* C18 witness: the cap is 100 and a response with content-length "100" was accepted
\* and the call fulfilled.
C18_Witness ==
    /\ config.fetchMaxContentLength = 100
    /\ response[1].contentLength = Header(<<"1", "0", "0">>)
    /\ outcome[1] = "fulfilled"

\* C19: a per-call timeout aborts the token of its own call and of no other; a call
\* whose timeout fires while the transport is pending is rejected with "aborted by
\* timeout"; a call is rejected so only then: when its transport completes before the
\* timeout fires, the timeout does not reject it.
C19_TimeoutAbortsOwnToken ==
    /\ [][\A c \in Calls :
            (aborted'[c] = "aborted by timeout" /\ aborted[c] # "aborted by timeout") =>
               /\ c \in abortTimeout /\ c \notin abortTimeout'
               /\ c \in abortControllers
               /\ \A d \in Calls \ {c} : aborted'[d] = aborted[d]]_vars
    /\ [][\A c \in Calls :
            (pc[c] = "transport" /\ aborted[c] = "aborted by timeout" /\ pc'[c] # pc[c]) =>
               pc'[c] = "done" /\ outcome'[c] = "aborted by timeout"]_vars
    /\ [][\A c \in Calls :
            (outcome[c] = "pending" /\ outcome'[c] = "aborted by timeout") =>
               pc[c] = "transport" /\ aborted[c] = "aborted by timeout"]_vars

\* C19 witness: three transports are pending, the timeout of call 3 has fired and
\* aborted its token, the tokens of calls 1 and 2 are untouched.
C19_Witness ==
    /\ \A c \in 1..3 : pc[c] = "transport"
    /\ aborted[3] = "aborted by timeout"
    /\ aborted[1] = "none"
    /\ aborted[2] = "none"

\* s begins with p; p occurs in s.
HasPrefix(s, p) == Len(p) <= Len(s) /\ \A i \in 1..Len(p) : s[i] = p[i]
Occurs(s, p) ==
    \E k \in 0..(Len(s) - Len(p)) : \A i \in 1..Len(p) : s[k + i] = p[i]

\* The body type the claim gives for a content-type value, its rules taken in the
\* order in which it lists them.
ClaimedType(text) ==
    IF HasPrefix(text, ApplicationJson) THEN "json"
    ELSE IF HasPrefix(text, MultipartFormData) THEN "formData"
    ELSE IF text = Text \/ HasPrefix(text, TextSlash) \/ Occurs(text, PlusXml) THEN "text"
    ELSE "arrayBuffer"

\* C20: the body of a fulfilled call is read as param.type when the caller gives one
\* (text, json, arrayBuffer, formData), whatever the content-type of the response;
\* otherwise as the type inferred from the content-type value: prefix application/json
\* gives json, else prefix multipart/form-data gives formData, else exactly "text",
\* prefix "text/" or an occurrence of "+xml" gives text, else arrayBuffer.
C20_BodyTypeNegotiation ==
    \A c \in Calls :
       outcome[c] = "fulfilled" =>
          /\ request[c].type # NoType => resultData[c] = request[c].type
          /\ (request[c].type = NoType /\ response[c].contentType.present) =>
                resultData[c] = ClaimedType(response[c].contentType.text)

\* C20 witness: the caller asked for json and the response came as text/x: the body
\* was read as json.
C20_Witness ==
    /\ request[1].type = "json"
    /\ response[1].contentType = Header(<<"text", "/", "x">>)
    /\ outcome[1] = "fulfilled"
    /\ resultData[1] = "json"

-----------------------------------------------------------------------------
\* C21: when the caller gives no type and the response has no content-type header,
\* the body of the fulfilled call is read as text.
C21_NoContentTypeIsText ==
    \A c \in Calls :
       (/\ outcome[c] = "fulfilled"
        /\ request[c].type = NoType
        /\ ~response[c].contentType.present) => resultData[c] = "text"

\* C22: the pairs of a formData result are in the order of the entries of the form:
\* when the call is fulfilled, the entries were pushed as 1, 2, ..., n.
C22_FormDataInOrder ==
    \A c \in Calls :
       (outcome[c] = "fulfilled" /\ resultData[c] = "formData")
          => formData[c].pushed = [i \in 1..Len(formData[c].entries) |-> i]

\* What the gateway's configuration contributes to the headers of call c, and the
\* entries of an object that are the last of their (case-insensitive) name.
ConfiguredHeaders(c) ==
    IF FetchHeaders.function /\ ~FetchHeaders.returns THEN <<>> ELSE FetchHeaders.entries
SameName(a, b) == Lower(a) = Lower(b)
LastOfName(o, i) == \A j \in DOMAIN o : SameName(o[j][1], o[i][1]) => j <= i
Names(o) == {Lower(o[i][1]) : i \in DOMAIN o}

\* C23: in the Headers handed to the transport a configured header overrides a
\* caller's header of the same name, the caller's other headers are passed through
\* unchanged, and nothing else is sent; the headers of the result are exactly those
\* of the transport's response.
C23_HeaderMerge ==
    \A c \in Calls :
       LET sent == headers[c].request
           got == headers[c].result
           configured == ConfiguredHeaders(c)
           caller == ParamHeaders(c)
       IN /\ TransportInvoked(c) =>
                /\ DOMAIN sent = Names(configured) \cup Names(caller)
                /\ \A i \in DOMAIN configured :
                      LastOfName(configured, i)
                         => sent[Lower(configured[i][1])] = configured[i][2]
                /\ \A i \in DOMAIN caller :
                      (LastOfName(caller, i) /\ Lower(caller[i][1]) \notin Names(configured))
                         => sent[Lower(caller[i][1])] = caller[i][2]
          /\ outcome[c] = "fulfilled" =>
                /\ \A n \in DOMAIN got : n \in {"content-length", "content-type"}
                /\ "content-length" \in DOMAIN got <=> response[c].contentLength.present
                /\ "content-type" \in DOMAIN got <=> response[c].contentType.present
                /\ response[c].contentLength.present
                      => got["content-length"] = response[c].contentLength.text
                /\ response[c].contentType.present
                      => got["content-type"] = response[c].contentType.text

\* A fulfilled call whose caller sent "A" and "b" while the gateway configures "a":
\* the transport got the configured "a" and the caller's "b", the result the
\* response's content-type.
C23_Witness ==
    \E c \in Calls :
       /\ outcome[c] = "fulfilled"
       /\ ParamHeaders(c) = <<<<"A", "1">>, <<"b", "1">>>>
       /\ ~FetchHeaders.function
       /\ FetchHeaders.entries = <<<<"a", "2">>>>
       /\ headers[c].request["a"] = "2"
       /\ headers[c].request["b"] = "1"
       /\ response[c].contentType.present
       /\ "content-type" \in DOMAIN headers[c].result

-----------------------------------------------------------------------------
\* C24: after dispose has been invoked no rate-window timer is armed.
C24_NoTimerAfterDispose ==
    disposed => ~fetchPoolTimeoutId

\* C25: invoking dispose on a gateway that is already disposed changes nothing: no
\* gateway state and no call's phase, abort reason or outcome.
C25_DisposeIdempotent ==
    [][(disposed /\ Dispose) => UNCHANGED vars]_vars

\* C25 witness: dispose has run while two calls were in flight; one of them has been
\* rejected, the other, aborted by dispose, is still unwinding, and a caller woken
\* with the error has not resumed: dispose can be invoked again here.
C25_Witness ==
    /\ disposed
    /\ ~draining
    /\ \E c \in InFlight : aborted[c] = "aborted by api"
    /\ \E c \in Calls : outcome[c] = "aborted by api"
    /\ \E c \in Calls : pc[c] = "wokenErr"

\* A limiting condition as the claims word it: the active set is full, or the quota
\* of the running window is used up.
SlotsTaken == N # Undefined /\ Cardinality(abortControllers) = N
QuotaUsed == config.fetchPoolTimeout # 0 /\ fetchPoolCounter = Q

\* C26: with no awaiting capacity (fetchMaxAwaitingProcesses unset, M = 0), on a live
\* gateway a call arriving while a limiting condition holds is rejected at once with
\* "fetch pool overflow", neither suspended nor admitted; a call arriving while none
\* holds (a slot has freed, the window has elapsed) is admitted.
C26_NoAwaitingCapacity ==
    [][\A c \in Calls :
         (Arrives(c) /\ ~disposed /\ M = 0) =>
            /\ (SlotsTaken \/ QuotaUsed) =>
                  /\ pc'[c] = "done"
                  /\ outcome'[c] = "fetch pool overflow"
                  /\ AdmissionUnchanged
            /\ ~(SlotsTaken \/ QuotaUsed) => AdmittedStep(c)]_vars

\* C26 witness: M = 0, N = 1: call 2 arrived while call 1 was active and was rejected
\* with the overflow error; call 1 has settled and call 3, arriving after, is admitted.
C26_Witness ==
    /\ M = 0 /\ N = 1 /\ ~disposed
    /\ pc[1] = "done"
    /\ outcome[2] = "fetch pool overflow"
    /\ 3 \in abortControllers

\* This step is the re-check of a woken caller c (line 315 after await #waitForUpdate()).
Rechecks(c) == pc[c] = "woken" /\ pc'[c] # "woken"

\* This step wakes every caller of the wait queue.
WakesAll ==
    /\ listeners' = <<>>
    /\ \A w \in Range(listeners) : pc'[w] = "woken"

\* C27: every release of an admitted call and every window reset wakes all callers of
\* the wait queue; on a live gateway a woken caller that re-checks is admitted when
\* neither limiting condition holds and suspends again, as a listener at the tail of
\* the queue, when one holds.
C27_WakeBroadcastRecheck ==
    [][/\ (\E c \in Calls : SettlesAdmitted(c)) => WakesAll
       /\ (fetchPoolTimeoutId /\ ~fetchPoolTimeoutId') => WakesAll
       /\ \A c \in Calls :
             (Rechecks(c) /\ ~disposed) =>
                IF HasMaxActiveBlock \/ HasTimeoutBlock
                THEN /\ pc'[c] = "waiting"
                     /\ listeners' = Append(listeners, c)
                ELSE AdmittedStep(c)]_vars

\* This step admits some call.
SomeAdmitted == \E c \in Calls : AdmittedStep(c)

\* C28: with the rate pool configured, a window timer is set exactly in the steps
\* that admit a call while none is armed; never more than one timer is armed, and the
\* handle tells whether one is; a counter above zero implies an armed timer; the
\* counter changes only by +1, in a step that admits a call, and to 0 when the timer
\* fires.  Without the rate pool there is neither timer nor count.
C28_TimerDiscipline ==
    /\ [](/\ poolTimers <= 1
          /\ fetchPoolTimeoutId <=> poolTimers = 1
          /\ fetchPoolCounter > 0 => fetchPoolTimeoutId
          /\ config.fetchPoolTimeout = 0 => (poolTimers = 0 /\ fetchPoolCounter = 0))
    /\ [][/\ poolTimers' > poolTimers <=>
                (SomeAdmitted /\ config.fetchPoolTimeout # 0 /\ ~fetchPoolTimeoutId)
          /\ poolTimers' > poolTimers => poolTimers' = poolTimers + 1
          /\ (SomeAdmitted /\ config.fetchPoolTimeout # 0)
                => fetchPoolCounter' = fetchPoolCounter + 1
          /\ fetchPoolCounter' # fetchPoolCounter =>
                \/ SomeAdmitted /\ fetchPoolCounter' = fetchPoolCounter + 1
                \/ /\ poolTimers' < poolTimers
                   /\ fetchPoolCounter' = 0]_vars

\* C28 witness: a second window: the timer of the first window has fired with two
\* admissions counted, the third call was admitted after it and armed the timer anew.
C28_Witness ==
    /\ Q = 2
    /\ poolTimers = 1
    /\ fetchPoolTimeoutId
    /\ fetchPoolCounter = 1
    /\ \A c \in 1..2 : pc[c] = "done"
    /\ pc[3] = "validating"

\* This step is the per-call timeout of call c firing (not its clearing on settle).
TimeoutFires(c) == c \in abortTimeout /\ c \notin abortTimeout' /\ pc'[c] = pc[c]

\* C29: dispose and the per-call timeout abort the same token of a call: after either
\* the token is aborted, with the reason of the one that fired first, and that reason
\* never changes; a settled call has no timeout armed and no controller in the active
\* set, its outcome never changes and its token is not aborted afterwards.
C29_FirstAbortWins ==
    /\ [](\A c \in Calls :
             pc[c] = "done" =>
                /\ c \notin abortTimeout
                /\ c \notin abortControllers
                /\ aborted[c] = "none"
                /\ outcome[c] # "pending")
    /\ [][\A c \in Calls :
             /\ (~disposed /\ disposed' /\ c \in abortControllers) =>
                   aborted'[c] = IF aborted[c] = "none" THEN "aborted by api" ELSE aborted[c]
             /\ TimeoutFires(c) =>
                   aborted'[c] = IF aborted[c] = "none" THEN "aborted by timeout"
                                 ELSE aborted[c]
             /\ (aborted[c] # "none" /\ pc'[c] # "done") => aborted'[c] = aborted[c]
             /\ (aborted[c] = "none" /\ aborted'[c] # "none") =>
                   \/ TimeoutFires(c) /\ aborted'[c] = "aborted by timeout"
                   \/ ~disposed /\ disposed' /\ aborted'[c] = "aborted by api"
             /\ pc[c] = "done" =>
                   /\ pc'[c] = "done"
                   /\ outcome'[c] = outcome[c]]_vars

\* C29 witness: the timeout of call 3 fired while its transport was pending, dispose
\* was invoked afterwards with the call still in flight: the reason is still the
\* timeout's; call 1 had settled fulfilled before dispose and is still fulfilled.
C29_Witness ==
    /\ disposed
    /\ callsAtDispose = 3
    /\ pc[3] = "transport"
    /\ 3 \in abortControllers
    /\ aborted[3] = "aborted by timeout"
    /\ outcome[1] = "fulfilled"

\* C30: once dispose has been invoked the wait queue is empty, in that state and in
\* every later one: no listener is registered and no caller is suspended as one.
C30_QueueEmptyAfterDispose ==
    disposed =>
       /\ listeners = <<>>
       /\ \A c \in Calls : pc[c] # "waiting"

\* C30 witness: M = 1; call 2 had been woken before dispose and re-checked after it,
\* with the rate block still holding: it was not registered again but rejected (only
\* two calls were made, so the queue was never full before dispose).
C30_Witness ==
    /\ disposed
    /\ M = 1
    /\ pc[3] = "idle"
    /\ outcome[2] = "fetch pool overflow"
    /\ listeners = <<>>

-----------------------------------------------------------------------------
\* C31: a caller that has been enqueued in the wait queue is never rejected with
\* "fetch pool overflow": when a woken caller leaves the woken state it is admitted,
\* registered as a listener again, or rejected with "api disposed".
C31_OverflowOnlyOnFirstWait ==
    [][\A c \in Calls :
         (pc[c] \in {"woken", "wokenErr"} /\ pc'[c] # pc[c]) =>
            \/ AdmittedStep(c)
            \/ pc'[c] = "waiting" /\ c \in Range(listeners')
            \/ pc'[c] = "done" /\ outcome'[c] = "api disposed"]_vars

\* C32: a call that arrives while an earlier caller is suspended (a listener, or woken
\* and not yet re-checked) is not admitted before that caller: no step admits a call
\* while a caller that arrived before it stays suspended.
C32_NoOvertaking ==
    [][\A a, b \in Calls :
         (a < b /\ Suspended(a) /\ pc[b] = "idle" /\ AdmittedStep(b)) =>
            pc'[a] \notin {"waiting", "woken", "wokenErr"}]_vars

\* The limits are usable: a cap of at least one call, a quota of at least one admission.
UsableLimits ==
    /\ N # Undefined => N >= 1
    /\ config.fetchPoolTimeout # 0 => Q >= 1

\* C33: with usable limits, in every state before disposal in which a caller is
\* registered in the wait queue, a call is active or a window timer is armed: the
\* event that will wake the caller is still to come.
C33_NoStrandedWaiter ==
    (/\ ~disposed
     /\ UsableLimits
     /\ \E c \in Calls : pc[c] = "waiting")
       => (abortControllers # {} \/ (fetchPoolTimeoutId /\ poolTimers > 0))

\* C33 witness: the only admitted call has settled and a caller waits on the quota of
\* the running window: no call is active, the armed timer is what will wake it.
C33_Witness ==
    /\ ~disposed
    /\ UsableLimits
    /\ abortControllers = {}
    /\ pc[1] = "done"
    /\ pc[2] = "waiting"
    /\ listeners = <<2>>
    /\ fetchPoolTimeoutId

\* The gateway with the tightest usable limits (a cap of one call or none, a quota of
\* one admission per window or none, any awaiting capacity), under the claim's
\* assumptions: promise jobs run, the resolver and the transport answer (or fail),
\* bodies are read, armed timers fire.  Callers and dispose are under no obligation.
InitLive ==
    /\ Init
    /\ UsableLimits
    /\ N \in {Undefined, 1}
    /\ Q \in {0, 1}

FairLive ==
    /\ WF_vars(Resume)
    /\ WF_vars(PoolTimerFire)
    /\ \A c \in 1..MaxCalls :
          /\ WF_vars(ValidationDone(c))
          /\ WF_vars(TransportDone(c))
          /\ WF_vars(BodyDone(c))
          /\ WF_vars(AbortTimerFire(c))

SpecLive == InitLive /\ [][Next]_vars /\ FairLive

\* Every call that was made has settled, fulfilled or rejected.
AllSettled ==
    \A c \in Calls : pc[c] = "idle" \/ (pc[c] = "done" /\ outcome[c] # "pending")

\* C34: under these assumptions every call that is made eventually settles,
\* fulfilled or rejected: whenever some call made has not settled, a state follows in
\* which every call made so far has (the calls being finitely many, that is the same
\* as each call settling); and whenever all the calls made have settled, the active
\* set and the wait queue are empty and no woken caller is left to resume.
C34_EveryCallSettles ==
    /\ (~AllSettled) ~> AllSettled
    /\ [](AllSettled =>
             /\ abortControllers = {}
             /\ listeners = <<>>
             /\ wakeQueue = <<>>)

\* C34 witness: three calls under a cap of one with two places to wait: all three
\* were made at once, the second and third were suspended, and all have settled.
C34_Witness ==
    /\ N = 1 /\ M = 2
    /\ ~disposed
    /\ AllSettled
    /\ \A c \in Calls : pc[c] = "done"
    /\ outcome[3] = "fulfilled"
    /\ abortControllers = {}

\* The rate pool is configured with no quota: fetchPoolTimeout set, fetchPoolCount
\* unset or 0.
NoQuota == config.fetchPoolTimeout # 0 /\ Q = 0

\* C35: with the rate pool configured and no quota, no call is ever admitted and no
\* window timer is ever armed: a call is rejected with "fetch pool overflow" or is a
\* listener of the wait queue, which it leaves only when dispose is invoked, and then
\* rejected with "api disposed".
C35_NoQuotaBlocksForever ==
    /\ [](NoQuota =>
             /\ abortControllers = {}
             /\ ~fetchPoolTimeoutId /\ poolTimers = 0
             /\ fetchPoolCounter = 0
             /\ \A c \in Calls :
                   /\ pc[c] \in {"idle", "waiting", "wokenErr", "done"}
                   /\ pc[c] = "done" => outcome[c] \in {"fetch pool overflow", "api disposed"}
                   /\ outcome[c] = "api disposed" => disposed
                   /\ pc[c] = "wokenErr" => disposed)
    /\ [][NoQuota =>
             \A c \in Calls :
                /\ (pc[c] = "waiting" /\ pc'[c] # "waiting") => (~disposed /\ disposed')
                /\ (Arrives(c) /\ ~disposed) =>
                      IF Len(listeners) < M
                      THEN pc'[c] = "waiting"
                      ELSE pc'[c] = "done" /\ outcome'[c] = "fetch pool overflow"]_vars

\* C35 witness: no quota, one place to wait: the first call is suspended, the second
\* was rejected with the overflow error, on a live gateway.
C35_Witness ==
    /\ NoQuota
    /\ M = 1
    /\ ~disposed
    /\ pc[1] = "waiting"
    /\ outcome[2] = "fetch pool overflow"

\* C36: the per-call timeout is armed in the step that starts the transport, after
\* admission and hostname validation, and at no other: while a call is suspended or
\* awaiting validation it has no timeout armed and its token is not aborted by a
\* timeout, however long it stays there.
C36_TimeoutArmedAtTransport ==
    /\ [](\A c \in Calls :
             (Suspended(c) \/ pc[c] \in {"idle", "validating"}) =>
                /\ c \notin abortTimeout
                /\ aborted[c] # "aborted by timeout"
                /\ outcome[c] # "aborted by timeout")
    /\ [][\A c \in Calls :
             (c \notin abortTimeout /\ c \in abortTimeout') =>
                /\ pc[c] = "validating"
                /\ pc'[c] = "transport"
                /\ c \in abortControllers]_vars

\* C36 witness: under a cap of one, call 2 is suspended in the wait queue and call 1
\* has settled; call 3 holds the slot, its transport is pending and its timeout armed:
\* armed timeouts and suspended callers are there together, and the armed one is the
\* call in transport.
C36_Witness ==
    /\ N = 1
    /\ pc[1] = "done"
    /\ pc[2] = "waiting"
    /\ pc[3] = "transport"
    /\ abortTimeout = {3}

\* The resolver is asked for the hostname of call c and answers with an error.
ResolutionFails(c) ==
    LET h == request[c].hostname
    IN /\ ~h.isIP
       /\ ~DomainDenied(h.name) /\ DomainListed(h.name)
       /\ resolved[c].error

\* C37 as stated: no call starts its transport once dispose has been invoked, and a
\* call whose validation settles after dispose is rejected with "api disposed".
C37_NoTransportAfterDispose ==
    [][\A c \in Calls :
         /\ (pc[c] # "transport" /\ pc'[c] = "transport") => ~disposed
         /\ (disposed /\ pc[c] = "validating" /\ pc'[c] # "validating") =>
               pc'[c] = "done" /\ outcome'[c] = "api disposed"]_vars

\* C37 amended: no call starts its transport once dispose has been invoked; a call
\* whose validation settles after dispose never reaches the transport: it is rejected
\* with "api disposed" whether its hostname is allowed or blocked, and with the
\* resolver's error when the resolution itself fails.
C37_NoTransportAfterDisposeAmended ==
    [][\A c \in Calls :
         /\ (pc[c] # "transport" /\ pc'[c] = "transport") => ~disposed
         /\ (disposed /\ pc[c] = "validating" /\ pc'[c] # "validating") =>
               /\ pc'[c] = "done"
               /\ outcome'[c] = IF ResolutionFails(c) THEN "error" ELSE "api disposed"]_vars

\* C37 witness: the call was admitted before dispose, dispose was invoked while its
\* hostname, which the policy allows, was being validated, and the call was rejected
\* with "api disposed".
C37_Witness ==
    \E c \in Calls :
       /\ disposed
       /\ callsAtDispose = 1
       /\ ~HostnameRejected(c)
       /\ pc[c] = "done"
       /\ outcome[c] = "api disposed"
       /\ aborted[c] = "none"

\* C38: with the rate pool configured the quota is used at admission and never given
\* back: the step that settles an admitted call, whatever its outcome, releases its
\* slot of the active set and leaves the counter as it is (one more when the call is
\* admitted and fails in the same step, its URL not parsing); the counter decreases
\* only when the window timer fires.
C38_QuotaNotRefunded ==
    [][/\ \A c \in Calls :
             (SettlesAdmitted(c) /\ config.fetchPoolTimeout # 0) =>
                /\ c \notin abortControllers'
                /\ fetchPoolCounter' =
                      IF pc[c] \in {"validating", "transport", "body"}
                      THEN fetchPoolCounter
                      ELSE fetchPoolCounter + 1
       /\ fetchPoolCounter' < fetchPoolCounter =>
             (poolTimers' < poolTimers /\ fetchPoolCounter' = 0)]_vars

\* C38 witness: a quota of one: call 1 was admitted and failed, its slot is released,
\* and it still fills the quota of the running window: call 2 waits for the reset.
C38_Witness ==
    /\ config.fetchPoolTimeout # 0 /\ Q = 1
    /\ ~disposed
    /\ pc[1] = "done"
    /\ outcome[1] \in {"error", "address blocked"}
    /\ abortControllers = {}
    /\ fetchPoolCounter = 1
    /\ fetchPoolTimeoutId
    /\ pc[2] = "waiting"

\* C39: a call rejected in the step of its arrival, with "api disposed" or with
\* "fetch pool overflow", leaves the admission state as it was: the active set, the
\* counter, the window timer, the wait queue; nobody is woken, no other call moves.
C39_EntryRejectionFrame ==
    [][\A c \in Calls :
         (/\ Arrives(c)
          /\ pc'[c] = "done"
          /\ outcome'[c] \in {"api disposed", "fetch pool overflow"}) =>
            /\ AdmissionUnchanged
            /\ UNCHANGED <<poolTimers, maxListeners, abortTimeout, aborted, disposed>>
            /\ \A d \in Calls \ {c} : pc'[d] = pc[d] /\ outcome'[d] = outcome[d]]_vars

\* C39 witness: call 2 was rejected at entry with the overflow error, call 3, made
\* after dispose, with "api disposed"; call 1, active all along, is still in flight.
C39_Witness ==
    /\ disposed
    /\ callsAtDispose = 2
    /\ outcome[2] = "fetch pool overflow"
    /\ outcome[3] = "api disposed"
    /\ 1 \in abortControllers
    /\ pc[1] \in {"validating", "transport", "body"}

====
